---- MODULE Spec2Model ----
(***************************************************************************)
(* Real-time presence / session coordinator of the chat server:            *)
(* src/src/config/socket.ts (Socket.IO handlers, the in-memory             *)
(* meetingRooms map), src/src/services/chatService.ts (the Firestore      *)
(* meeting document: participants, activeParticipants) and                 *)
(* src/src/controllers/meetingController.ts (the HTTP requests that        *)
(* create, join, update and delete a meeting document).                    *)
(*                                                                         *)
(* JavaScript runs one handler segment at a time; a handler can be         *)
(* suspended only at an await.  Every action below is one such segment:    *)
(* from the arrival of an event (or the completion of an awaited store     *)
(* call) up to the next await or the handler's end.  A store call takes    *)
(* effect at the step that resumes the handler awaiting it, and may fail   *)
(* (ok = FALSE) there.                                                     *)
(***************************************************************************)
EXTENDS Naturals, Integers, Sequences, FiniteSets, Bags, TLC

VARIABLES
    meetingRooms,   \* socket.ts:16  Map<string, OnlineUser[]>, in insertion order
    rooms,          \* Socket.IO adapter rooms: meetingId -> set of socket ids
    connected,      \* sockets whose transport is open
    db,             \* Firestore collection 'meetings': meetingId -> document
    tasks,          \* handlers suspended at an await: a bag, two may hold the same data
    clock,          \* the time new Date() reads; it advances when a session is created
    nOps,           \* events received in this behaviour
    lastOp,         \* the handler segment that ran in the last step
    lastEmit,       \* the events that segment emitted, in order
    storeFailed,    \* TRUE once a store call has failed
    faulty,         \* whether store calls can fail in this behaviour
    messaging,      \* whether chat and typing events arrive in this behaviour
    named           \* how many sockets, users and meetings have appeared in an event

vars == <<meetingRooms, rooms, connected, db, tasks, clock, nOps, lastOp, lastEmit, storeFailed,
          faulty, messaging, named>>

----------------------------------------------------------------------------
(* Bounds and configuration *)

\* socket.ts:19  parseInt(process.env.MAX_PARTICIPANTS || '10'); run with MAX_PARTICIPANTS=2
MAX_PARTICIPANTS == 2

\* events received in one behaviour
MaxOps == 2

\* events received in one behaviour in which store calls can fail
MaxFaultyOps == 1

\* events received in one behaviour in which chat and typing events arrive
MaxMessagingOps == 1

OpsAllowed ==
    IF faulty THEN MaxFaultyOps ELSE IF messaging THEN MaxMessagingOps ELSE MaxOps

\* Socket ids, user ids and meeting ids.  The socket ids are interchangeable, and
\* so are the user ids and the meeting ids that name no document at the start:
\* they are named in the order in which they first appear in an event: "c1" is
\* the first connection that sends one, "u1" the first userId a payload carries,
\* "m0" the first id without a document that a payload or generateMeetingId
\* brings.  The two documents of the start differ (maxParticipants), and their
\* ids "m1" and "m2" can be named by any event.
SocketOrder == <<"c1", "c2", "c3">>
UserOrder == <<"u1", "u2", "u3">>
\* the ids without a document at the start, one for each event of a behaviour
FreshOrder == <<"m0", "m3", "m4">>
Range(s) == {s[i] : i \in 1..Len(s)}
Sockets == Range(SocketOrder)
Users == Range(UserOrder)
\* the ids of the documents of the 'meetings' collection at the start
Meetings == {"m1", "m2"}
MeetingIds == Meetings \cup Range(FreshOrder)
\* "" is a missing (falsy) payload field
NoValue == ""
\* the display name the client of a connection puts in its payloads
NameOf(c) == [c1 |-> "ana", c2 |-> "bob", c3 |-> "eve"][c]

\* x is an id already named, or the next one of its kind
Nameable(order, n, x) == \A i \in 1..Len(order) : order[i] = x => i <= n + 1
\* the number of ids named once x has appeared
Naming(order, n, x) == IF \E i \in 1..Len(order) : order[i] = x /\ i = n + 1 THEN n + 1 ELSE n

----------------------------------------------------------------------------
(* The meetingRooms Map: a sequence of entries in insertion order *)

MapHas(map, k) == \E i \in 1..Len(map) : map[i].meetingId = k

MapIndex(map, k) == CHOOSE i \in 1..Len(map) : map[i].meetingId = k

\* meetingRooms.get(meetingId) || []
MapGetOrEmpty(map, k) == IF MapHas(map, k) THEN map[MapIndex(map, k)].participants ELSE <<>>

\* the identity of the array object stored under k (0: none): the clock value at
\* which the array was created, which no other array of that meeting shares
MapArrayId(map, k) == IF MapHas(map, k) THEN map[MapIndex(map, k)].array ELSE 0

\* the array stored in the first entry of the map, whatever its key
MapSetFirst(map, k, v, now) ==
    IF map = <<>>
    THEN Append(map, [meetingId |-> k, participants |-> v, array |-> now])
    ELSE [map EXCEPT ![1].participants = v]

\* meetingRooms.set(meetingId, participants): a present key keeps its place and,
\* the array being mutated in place, its array; an absent key is appended with
\* the array created by `|| []`
MapSet(map, k, v, now) ==
    IF MapHas(map, k)
    THEN [map EXCEPT ![MapIndex(map, k)].participants = v]
    ELSE Append(map, [meetingId |-> k, participants |-> v, array |-> now])

\* the entry kept, with an empty array
MapKeepEmpty(map, k) ==
    [i \in 1..Len(map) |-> IF map[i].meetingId = k
                           THEN [map[i] EXCEPT !.participants = <<>>] ELSE map[i]]

\* meetingRooms.delete(meetingId)
MapDelete(map, k) == SelectSeq(map, LAMBDA e : e.meetingId # k)

\* socket.ts:316-318: meetingRooms.size
getActiveMeetingsCount == Len(meetingRooms)

RECURSIVE SumOfLengths(_)
SumOfLengths(map) ==
    IF map = <<>> THEN 0 ELSE Len(Head(map).participants) + SumOfLengths(Tail(map))

\* socket.ts:324-330: the lengths of meetingRooms.values() added up
getTotalUsersCount == SumOfLengths(meetingRooms)

----------------------------------------------------------------------------
(* Array helpers *)

\* participants.findIndex(p => p.socketId === socket.id); 0 stands for -1
FindIndexBySocket(parts, sid) ==
    IF \E i \in 1..Len(parts) : parts[i].socketId = sid
    THEN CHOOSE i \in 1..Len(parts) :
            /\ parts[i].socketId = sid
            /\ \A j \in 1..(i - 1) : parts[j].socketId # sid
    ELSE 0

\* the lookup comparing the session's socketId with the userId: it finds nothing
FindIndexByWrongField(parts, uid) ==
    IF \E i \in 1..Len(parts) : parts[i].socketId = uid
    THEN CHOOSE i \in 1..Len(parts) : parts[i].socketId = uid
    ELSE 0

\* currentParticipants.find(u => u.userId === userId); 0 stands for undefined
FindIndexByUserId(parts, uid) ==
    IF \E i \in 1..Len(parts) : parts[i].userId = uid
    THEN CHOOSE i \in 1..Len(parts) :
            /\ parts[i].userId = uid
            /\ \A j \in 1..(i - 1) : parts[j].userId # uid
    ELSE 0

\* participants.splice(userIndex, 1)
Splice(parts, i) == [j \in 1..(Len(parts) - 1) |-> IF j < i THEN parts[j] ELSE parts[j + 1]]

\* a test that finds no userId in the list
IncludesNothing(list, x) == FALSE

\* participants.includes(userId)
Includes(list, x) == \E i \in 1..Len(list) : list[i] = x

\* the check with > for >=: one session too many is admitted
IsFullOffByOne(parts) == Len(parts) > MAX_PARTICIPANTS

\* currentParticipants.length >= MAX_PARTICIPANTS
IsFull(parts) == Len(parts) >= MAX_PARTICIPANTS

----------------------------------------------------------------------------
(* Outbound events.  "to" is the set of sockets the packet is written to:  *)
(* a closed socket is written nothing.                                     *)

BlankEvent ==
    [type |-> "", to |-> {}, meetingId |-> NoValue, userId |-> NoValue,
     username |-> NoValue, participants |-> <<>>, count |-> 0, message |-> <<>>]

\* socket.emit(SocketEvents.ERROR, { message })
ErrorEvent(c, conn, msg) ==
    [BlankEvent EXCEPT !.type = "error", !.to = {c} \cap conn, !.message = msg]

\* socket.ts:59
MsgRequired == <<"Meeting ID and User ID are required">>
\* socket.ts:68
MsgNotFound == <<"Meeting not found">>
\* the message with the default limit written into it
MsgFullHardCoded == <<"Meeting is full (maximum ", 10, " participants)">>
\* socket.ts:79  `Meeting is full (maximum ${MAX_PARTICIPANTS} participants)`
MsgFull == <<"Meeting is full (maximum ", MAX_PARTICIPANTS, " participants)">>
\* socket.ts:137
MsgJoinFailed == <<"Failed to join meeting">>

\* participants.map(p => ({ userId, username, joinedAt }))
PublicView(parts) ==
    [i \in 1..Len(parts) |->
        [userId |-> parts[i].userId, username |-> parts[i].username,
         joinedAt |-> parts[i].joinedAt]]

\* io.to(meetingId).emit(SocketEvents.USERS_ONLINE, {...})
UsersOnlineEvent(m, parts, members) ==
    [BlankEvent EXCEPT !.type = "users:online", !.to = members, !.meetingId = m,
                       !.participants = PublicView(parts), !.count = Len(parts)]

\* socket.to(meetingId).emit(SocketEvents.USER_JOINED, {...})
UserJoinedEvent(u, n, members) ==
    [BlankEvent EXCEPT !.type = "user:joined", !.to = members, !.userId = u, !.username = n]

\* io.to(meetingId).emit(SocketEvents.USER_LEFT, {...})
UserLeftEvent(u, n, members) ==
    [BlankEvent EXCEPT !.type = "user:left", !.to = members, !.userId = u, !.username = n]

----------------------------------------------------------------------------
(* ChatService *)

\* a lookup that finds every meeting
MeetingExistsAlways(m, ok) == TRUE

\* meetingExists: doc.exists, and false when the read throws
MeetingExists(m, ok) == IF ok THEN m \in DOMAIN db ELSE FALSE

\* a catch that logs and throws the error on
AddParticipantRethrows == FALSE

\* the catch of addParticipantToMeeting logs and does not rethrow
AddParticipantSwallows == TRUE

\* the catch of updateActiveParticipants logs and does not rethrow
UpdateActiveSwallows == TRUE

----------------------------------------------------------------------------
(* Suspended handlers *)

NewTask(kind, pc, c, m, u, n) ==
    [kind |-> kind, pc |-> pc, socketId |-> c, meetingId |-> m, userId |-> u,
     username |-> n, array |-> 0, reconnect |-> FALSE, parts |-> <<>>, count |-> 0,
     overtaken |-> {}, maxParticipants |-> 0]

\* a handler reaches an await / the awaited call returns to it
Suspend(ts, t) == ts (+) SetToBag({t})
Resume(ts, t) == ts (-) SetToBag({t})

\* A Join that has changed the roster of m and not yet sent its broadcasts
\* (socket.ts:102-112), when a Remove changes that roster and sends its own to
\* the sockets of `to` (socket.ts:272-300): the task remembers who got them.
Overtake(ts, m, to) ==
    LET mark(t) == IF t.kind = "join" /\ t.meetingId = m /\ t.pc # "exists"
                   THEN [t EXCEPT !.overtaken = @ \cup to]
                   ELSE t
        copies == UNION {{t} \X (1..ts[t]) : t \in BagToSet(ts)}
    IN  [x \in {mark(t) : t \in BagToSet(ts)} |->
            Cardinality({p \in copies : mark(p[1]) = x})]

\* the array a Join handler holds in currentParticipants: the one in the map, or
\* an array that left the map when its last session was removed (empty since)
CurrentParticipants(t) ==
    IF MapArrayId(meetingRooms, t.meetingId) = t.array
    THEN MapGetOrEmpty(meetingRooms, t.meetingId)
    ELSE <<>>

\* What a step ran: the segment (op), the handler it belongs to ("join" for a
\* Join that pushed a session, "rejoin" for one that found its userId in the
\* roster, "remove" for handleUserLeave), its socket and payload, its outcome.
Op(op, handler, c, m, u, result) ==
    [op |-> op, handler |-> handler, socketId |-> c, meetingId |-> m, userId |-> u,
     result |-> result]

HandlerOf(t) ==
    IF t.kind = "leave" THEN "remove" ELSE IF t.reconnect THEN "rejoin" ELSE "join"

\* the user that created the documents the collection holds at the start:
\* their hostId and the first entry of their participants
\* (meetingController.ts:62, 69); this user opens no connection
InitialHost == "u0"

\* The maxParticipants each meeting document was created with
\* (meetingController.ts:68): the global limit for "m1", a smaller one for "m2".
\* No handler of socket.ts reads the field.
MeetingMaxParticipants == [m1 |-> MAX_PARTICIPANTS, m2 |-> MAX_PARTICIPANTS - 1]

\* The state once the first k connections have joined meeting "m1", one after
\* the other and each as its own user, and every handler has returned: the
\* state of a fresh server for k = 0.
Joined(k) ==
    [i \in 1..k |->
        [socketId |-> SocketOrder[i], userId |-> UserOrder[i], meetingId |-> "m1",
         username |-> NameOf(SocketOrder[i]), joinedAt |-> i]]

InitAfter(k) ==
    /\ meetingRooms = IF k = 0 THEN <<>>
                      ELSE <<[meetingId |-> "m1", participants |-> Joined(k), array |-> 1]>>
    /\ rooms = [m \in MeetingIds |-> IF m = "m1" THEN {SocketOrder[i] : i \in 1..k} ELSE {}]
    /\ connected = Sockets
    /\ db = [m \in Meetings |->
                IF m = "m1"
                THEN [participants |-> <<InitialHost>> \o [i \in 1..k |-> UserOrder[i]],
                      activeParticipants |-> k,
                      maxParticipants |-> MeetingMaxParticipants[m],
                      hostId |-> InitialHost]
                ELSE [participants |-> <<InitialHost>>, activeParticipants |-> 0,
                      maxParticipants |-> MeetingMaxParticipants[m],
                      hostId |-> InitialHost]]
    /\ tasks = EmptyBag
    /\ clock = k
    /\ nOps = 0
    /\ lastOp = Op("init", "", NoValue, NoValue, NoValue, "")
    /\ lastEmit = <<>>
    /\ storeFailed = FALSE
    /\ named = [sockets |-> k, users |-> k, meetings |-> 0]

\* The state once the first connection has joined "m1" as "u1" and then as "u2",
\* and has left "m1" once, every handler having returned: handleUserLeave
\* spliced the first session of the socket and took the socket out of the room.
InitAfterSecondSession ==
    /\ meetingRooms =
          <<[meetingId |-> "m1", participants |-> <<[Joined(2)[2] EXCEPT !.socketId = "c1", !.username = NameOf("c1")]>>,
             array |-> 1]>>
    /\ rooms = [m \in MeetingIds |-> {}]
    /\ connected = Sockets
    /\ db = [m \in Meetings |->
                IF m = "m1"
                THEN [participants |-> <<InitialHost, "u1", "u2">>, activeParticipants |-> 1,
                      maxParticipants |-> MeetingMaxParticipants[m],
                      hostId |-> InitialHost]
                ELSE [participants |-> <<InitialHost>>, activeParticipants |-> 0,
                      maxParticipants |-> MeetingMaxParticipants[m],
                      hostId |-> InitialHost]]
    /\ tasks = EmptyBag
    /\ clock = 2
    /\ nOps = 0
    /\ lastOp = Op("init", "", NoValue, NoValue, NoValue, "")
    /\ lastEmit = <<>>
    /\ storeFailed = FALSE
    /\ named = [sockets |-> 1, users |-> 2, meetings |-> 0]

\* The state once the first connection has joined "m1" as "u1" and, its Join
\* handler suspended at addParticipantToMeeting, has left "m1", and the
\* handler of the Leave has returned: the roster is gone from the map, and the
\* Join handler still holds the array it pushed its session to.
InitAfterLeftWhileJoining ==
    /\ meetingRooms = <<>>
    /\ rooms = [m \in MeetingIds |-> {}]
    /\ connected = Sockets
    /\ db = [m \in Meetings |->
                [participants |-> <<InitialHost>>, activeParticipants |-> 0,
                 maxParticipants |-> MeetingMaxParticipants[m],
                 hostId |-> InitialHost]]
    /\ tasks = SetToBag({[NewTask("join", "addGet", "c1", "m1", "u1", NameOf("c1"))
                               EXCEPT !.array = 1]})
    /\ clock = 1
    /\ nOps = 0
    /\ lastOp = Op("init", "", NoValue, NoValue, NoValue, "")
    /\ lastEmit = <<>>
    /\ storeFailed = FALSE
    /\ named = [sockets |-> 1, users |-> 1, meetings |-> 0]

\* The state once the first connection has joined "m1" and then "m2", both as
\* "u1", and every handler has returned.
InitAfterTwoMeetings ==
    /\ meetingRooms =
          <<[meetingId |-> "m1", participants |-> <<Joined(1)[1]>>, array |-> 1],
            [meetingId |-> "m2",
             participants |-> <<[Joined(1)[1] EXCEPT !.meetingId = "m2", !.joinedAt = 2]>>,
             array |-> 2]>>
    /\ rooms = [m \in MeetingIds |-> IF m \in Meetings THEN {"c1"} ELSE {}]
    /\ connected = Sockets
    /\ db = [m \in Meetings |->
                [participants |-> <<InitialHost, "u1">>, activeParticipants |-> 1,
                 maxParticipants |-> MeetingMaxParticipants[m],
                 hostId |-> InitialHost]]
    /\ tasks = EmptyBag
    /\ clock = 2
    /\ nOps = 0
    /\ lastOp = Op("init", "", NoValue, NoValue, NoValue, "")
    /\ lastEmit = <<>>
    /\ storeFailed = FALSE
    /\ named = [sockets |-> 1, users |-> 1, meetings |-> 0]

\* every store call succeeds; the roster of "m1" has room for a session
Init == faulty = FALSE /\ messaging = FALSE /\ \E k \in 0..(MAX_PARTICIPANTS - 1) : InitAfter(k)

\* every store call succeeds; one session is in the roster of "m1"
InitOneJoined == faulty = FALSE /\ messaging = FALSE /\ InitAfter(1)

\* every store call succeeds; one connection has held two sessions
InitSecondSession == faulty = FALSE /\ messaging = FALSE /\ InitAfterSecondSession

\* every store call succeeds; a Join handler is suspended whose connection has left
InitLeftWhileJoining == faulty = FALSE /\ messaging = FALSE /\ InitAfterLeftWhileJoining

\* every store call succeeds; one connection holds a session in each meeting
InitTwoMeetings == faulty = FALSE /\ messaging = FALSE /\ InitAfterTwoMeetings

\* a store call may fail
InitFaulty == faulty = TRUE /\ messaging = FALSE /\ \E k \in 0..MAX_PARTICIPANTS : InitAfter(k)

----------------------------------------------------------------------------
(* JOIN_MEETING, socket.ts:53-140 *)

\* the event arrives: validation, then the call of chatService.meetingExists
JoinMeeting(c, m, u, n) ==
    /\ c \in connected
    /\ nOps < OpsAllowed
    /\ nOps' = nOps + 1
    /\ Nameable(SocketOrder, named.sockets, c)
    /\ Nameable(UserOrder, named.users, u)
    /\ Nameable(FreshOrder, named.meetings, m)
    /\ named' = [sockets |-> Naming(SocketOrder, named.sockets, c),
                 users |-> Naming(UserOrder, named.users, u),
                 meetings |-> Naming(FreshOrder, named.meetings, m)]
    /\ IF m = NoValue \/ u = NoValue
       THEN /\ lastEmit' = <<ErrorEvent(c, connected, MsgRequired)>>
            /\ lastOp' = Op("join", "", c, m, u, "invalid")
            /\ UNCHANGED tasks
       ELSE /\ tasks' = Suspend(tasks, NewTask("join", "exists", c, m, u, n))
            /\ lastEmit' = <<>>
            /\ lastOp' = Op("join", "", c, m, u, "pending")
    /\ UNCHANGED <<meetingRooms, rooms, connected, db, clock, storeFailed, faulty, messaging>>

\* the session pushed by a Join that finds no session of its userId
NewUser(t) ==
    [socketId |-> t.socketId, userId |-> t.userId, meetingId |-> t.meetingId,
     username |-> t.username, joinedAt |-> clock + 1]

\* socket.ts:84-99: the roster after admitting t
Admit(cur, t) ==
    LET idx == FindIndexByUserId(cur, t.userId)
    IN  IF idx # 0
        THEN [cur EXCEPT ![idx].socketId = t.socketId]
        ELSE Append(cur, NewUser(t))

\* meetingExists returns: not found, full, or reconnect / push, then the call of
\* chatService.addParticipantToMeeting
JoinMeetingExists(t, ok) ==
    /\ BagIn(t, tasks) /\ t.kind = "join" /\ t.pc = "exists"
    /\ (ok \/ faulty)
    /\ storeFailed' = (storeFailed \/ ~ok)
    /\ LET c == t.socketId
           m == t.meetingId
           cur == MapGetOrEmpty(meetingRooms, m)
           next == [t EXCEPT !.pc = "addGet",
                             !.array = MapArrayId(MapSet(meetingRooms, m, cur, clock + 1), m),
                             !.reconnect = (FindIndexByUserId(cur, t.userId) # 0)]
       IN  IF ~MeetingExists(m, ok)
           THEN /\ lastEmit' = <<ErrorEvent(c, connected, MsgNotFound)>>
                /\ lastOp' = Op("joinExists", "", c, m, t.userId, "notfound")
                /\ tasks' = Resume(tasks, t)
                /\ UNCHANGED <<meetingRooms, rooms, clock>>
           ELSE IF IsFull(cur)
           THEN /\ lastEmit' = <<ErrorEvent(c, connected, MsgFull)>>
                /\ lastOp' = Op("joinExists", "", c, m, t.userId, "full")
                /\ tasks' = Resume(tasks, t)
                /\ UNCHANGED <<meetingRooms, rooms, clock>>
           ELSE /\ clock' = IF next.reconnect THEN clock ELSE clock + 1
                /\ meetingRooms' = MapSet(meetingRooms, m, Admit(cur, t), clock + 1)
                /\ rooms' = [rooms EXCEPT ![m] = @ \cup {c}]
                /\ tasks' = Suspend(Resume(tasks, t), next)
                /\ lastEmit' = <<>>
                /\ lastOp' = Op("joinExists", HandlerOf(next), c, m, t.userId, "admitted")
    /\ UNCHANGED <<connected, db, nOps, faulty, messaging, named>>

\* socket.ts:112: currentParticipants.length is read, then
\* chatService.updateActiveParticipants awaits meetingExists
CallUpdateActive(t) == [t EXCEPT !.pc = "active", !.count = Len(CurrentParticipants(t))]

\* socket.ts:134-139: the catch of the JOIN_MEETING handler
JoinCatch(t) ==
    /\ lastEmit' = <<ErrorEvent(t.socketId, connected, MsgJoinFailed)>>
    /\ tasks' = Resume(tasks, t)

\* chatService.ts:103-121: meetingRef.get() returns; the userId is in the list, or
\* update is called with the list read here and the userId appended
AddParticipantGet(t, ok) ==
    /\ BagIn(t, tasks) /\ t.kind = "join" /\ t.pc = "addGet"
    /\ (ok \/ faulty)
    /\ storeFailed' = (storeFailed \/ ~ok)
    /\ lastOp' = Op("addGet", HandlerOf(t), t.socketId, t.meetingId, t.userId, IF ok THEN "ok" ELSE "failed")
    /\ IF ~ok /\ ~AddParticipantSwallows
       THEN JoinCatch(t)
       ELSE LET next == IF ok /\ t.meetingId \in DOMAIN db
                             /\ ~Includes(db[t.meetingId].participants, t.userId)
                        THEN [t EXCEPT !.pc = "addUpdate",
                                       !.parts = db[t.meetingId].participants]
                        ELSE CallUpdateActive(t)
            IN  /\ tasks' = Suspend(Resume(tasks, t), next)
                /\ lastEmit' = <<>>
    /\ UNCHANGED <<meetingRooms, rooms, connected, db, clock, nOps, faulty, messaging, named>>

\* chatService.ts:115-118: meetingRef.update({participants: [...participants, userId]})
\* returns, or throws (the store failed, or the document has been deleted since
\* the get)
AddParticipantUpdate(t, ok) ==
    /\ BagIn(t, tasks) /\ t.kind = "join" /\ t.pc = "addUpdate"
    /\ (ok \/ faulty)
    /\ storeFailed' = (storeFailed \/ ~(ok /\ t.meetingId \in DOMAIN db))
    /\ lastOp' = Op("addUpdate", HandlerOf(t), t.socketId, t.meetingId, t.userId,
                    IF ok /\ t.meetingId \in DOMAIN db THEN "ok" ELSE "failed")
    /\ db' = IF ok /\ t.meetingId \in DOMAIN db
             THEN [db EXCEPT ![t.meetingId].participants = Append(t.parts, t.userId)]
             ELSE db
    /\ IF ~(ok /\ t.meetingId \in DOMAIN db) /\ ~AddParticipantSwallows
       THEN JoinCatch(t)
       ELSE LET next == [CallUpdateActive(t) EXCEPT !.parts = <<>>]
            IN  /\ tasks' = Suspend(Resume(tasks, t), next)
                /\ lastEmit' = <<>>
    /\ UNCHANGED <<meetingRooms, rooms, connected, clock, nOps, faulty, messaging, named>>

\* socket.ts:114-130: the two broadcasts that end a Join; a Remove has sent its
\* own before it called updateActiveParticipants
Finish(t) ==
    /\ tasks' = Resume(tasks, t)
    /\ lastEmit' =
         IF t.kind = "join"
         THEN <<UsersOnlineEvent(t.meetingId, CurrentParticipants(t),
                                 rooms[t.meetingId] \cap connected),
                UserJoinedEvent(t.userId, t.username,
                                (rooms[t.meetingId] \ {t.socketId}) \cap connected)>>
         ELSE <<>>

\* chatService.ts:136: updateActiveParticipants awaits meetingExists, which
\* returns doc.exists, or false when the read throws; with no document the
\* function returns and the handler goes on to its end
UpdateActiveExists(t, ok) ==
    /\ BagIn(t, tasks) /\ t.pc = "active"
    /\ (ok \/ faulty)
    /\ storeFailed' = (storeFailed \/ ~ok)
    /\ IF MeetingExists(t.meetingId, ok)
       THEN /\ tasks' = Suspend(Resume(tasks, t), [t EXCEPT !.pc = "active:update"])
            /\ lastEmit' = <<>>
            /\ lastOp' = Op("activeExists", HandlerOf(t), t.socketId, t.meetingId, t.userId,
                            "ok")
       ELSE /\ Finish(t)
            /\ lastOp' = Op("active", HandlerOf(t), t.socketId, t.meetingId, t.userId,
                            IF ok THEN "nodoc" ELSE "failed")
    /\ UNCHANGED <<meetingRooms, rooms, connected, db, clock, nOps, faulty, messaging, named>>

\* chatService.ts:138-149: update({activeParticipants}) returns, or throws (the
\* store failed, or the document has been deleted since meetingExists)
UpdateActiveUpdate(t, ok) ==
    /\ BagIn(t, tasks) /\ t.pc = "active:update"
    /\ (ok \/ faulty)
    /\ LET written == ok /\ t.meetingId \in DOMAIN db
       IN  /\ storeFailed' = (storeFailed \/ ~written)
           /\ lastOp' = Op("active", HandlerOf(t), t.socketId, t.meetingId, t.userId,
                           IF written THEN "ok" ELSE "failed")
           /\ db' = IF written
                    THEN [db EXCEPT ![t.meetingId].activeParticipants = t.count]
                    ELSE db
           /\ IF ~written /\ ~UpdateActiveSwallows
              THEN IF t.kind = "join"
                   THEN JoinCatch(t)
                   ELSE tasks' = Resume(tasks, t) /\ lastEmit' = <<>>
              ELSE Finish(t)
    /\ UNCHANGED <<meetingRooms, rooms, connected, clock, nOps, faulty, messaging, named>>

----------------------------------------------------------------------------
(* LEAVE_MEETING and DISCONNECT, socket.ts:224-310 *)

\* handleUserLeave up to its await: rms and conn are the adapter rooms and the
\* open sockets at the call
HandleUserLeave(c, m, rms, conn, op) ==
    LET parts == MapGetOrEmpty(meetingRooms, m)
        idx == IF MapHas(meetingRooms, m) THEN FindIndexBySocket(parts, c) ELSE 0
    IN  IF idx = 0
        THEN /\ rooms' = rms
             /\ lastEmit' = <<>>
             /\ lastOp' = Op(op, "remove", c, m, NoValue, "noop")
             /\ UNCHANGED <<meetingRooms, tasks>>
        ELSE LET user == parts[idx]
                 rest == Splice(parts, idx)
                 left == [rms EXCEPT ![m] = @ \ {c}]
                 task == [NewTask("leave", "active", c, m, user.userId, user.username)
                            EXCEPT !.count = Len(rest)]
             IN  /\ meetingRooms' = IF Len(rest) = 0
                                    THEN MapDelete(meetingRooms, m)
                                    ELSE MapSet(meetingRooms, m, rest, clock)
                 /\ rooms' = left
                 /\ lastEmit' = <<UserLeftEvent(user.userId, user.username, left[m] \cap conn),
                                  UsersOnlineEvent(m, rest, left[m] \cap conn)>>
                 /\ tasks' = Suspend(Overtake(tasks, m, left[m] \cap conn), task)
                 /\ lastOp' = Op(op, "remove", c, m, user.userId, "removed")

\* socket.ts:224-226
LeaveMeeting(c, m) ==
    /\ c \in connected
    /\ nOps < OpsAllowed
    /\ nOps' = nOps + 1
    /\ Nameable(SocketOrder, named.sockets, c)
    /\ Nameable(FreshOrder, named.meetings, m)
    /\ named' = [named EXCEPT !.sockets = Naming(SocketOrder, @, c),
                              !.meetings = Naming(FreshOrder, @, m)]
    /\ HandleUserLeave(c, m, rooms, connected, "leave")
    /\ UNCHANGED <<connected, db, clock, storeFailed, faulty, messaging>>

\* socket.ts:235-242: the first entry of the map, in insertion order, that holds a
\* session of the socket (0: none)
FirstRoomOf(map, c) ==
    IF \E i \in 1..Len(map) : FindIndexBySocket(map[i].participants, c) # 0
    THEN CHOOSE i \in 1..Len(map) :
            /\ FindIndexBySocket(map[i].participants, c) # 0
            /\ \A j \in 1..(i - 1) : FindIndexBySocket(map[j].participants, c) = 0
    ELSE 0

\* socket.ts:231-243: Socket.IO has closed the socket and taken it out of every
\* room before the handler runs; the loop breaks after the first room found
Disconnect(c) ==
    /\ c \in connected
    /\ nOps < OpsAllowed
    /\ nOps' = nOps + 1
    /\ connected' = connected \ {c}
    /\ Nameable(SocketOrder, named.sockets, c)
    /\ named' = [named EXCEPT !.sockets = Naming(SocketOrder, @, c)]
    /\ LET rms == [m \in DOMAIN rooms |-> rooms[m] \ {c}]
           i == FirstRoomOf(meetingRooms, c)
       IN  IF i = 0
           THEN /\ rooms' = rms
                /\ lastEmit' = <<>>
                /\ lastOp' = Op("disconnect", "remove", c, NoValue, NoValue, "noop")
                /\ UNCHANGED <<meetingRooms, tasks>>
           ELSE HandleUserLeave(c, meetingRooms[i].meetingId, rms, connected \ {c}, "disconnect")
    /\ UNCHANGED <<db, clock, storeFailed, faulty, messaging>>

----------------------------------------------------------------------------
(* CHAT_MESSAGE, TYPING_START and TYPING_STOP, socket.ts:145-219 *)

\* A message text is its sequence of characters; <<>> is the empty string or a
\* missing field, which `!message` does not tell apart.
Whitespace == {" "}
Texts == {<<"h", "i">>, <<" ", "h", "i", " ">>, <<" ">>, <<>>}

RECURSIVE TrimStart(_)
TrimStart(s) == IF s # <<>> /\ Head(s) \in Whitespace THEN TrimStart(Tail(s)) ELSE s

RECURSIVE TrimEnd(_)
TrimEnd(s) ==
    IF s # <<>> /\ s[Len(s)] \in Whitespace THEN TrimEnd(SubSeq(s, 1, Len(s) - 1)) ELSE s

\* message.trim()
Trim(s) == TrimEnd(TrimStart(s))

\* io.to(meetingId): the sockets in the room, none when no socket ever joined it
RoomOf(rms, m) == IF m \in DOMAIN rms THEN rms[m] ELSE {}

\* participants.find(p => p.socketId === socket.id || p.userId === userId); 0
\* stands for undefined
FindIndexBySocketOrUserId(parts, sid, uid) ==
    IF \E i \in 1..Len(parts) : parts[i].socketId = sid \/ parts[i].userId = uid
    THEN CHOOSE i \in 1..Len(parts) :
            /\ parts[i].socketId = sid \/ parts[i].userId = uid
            /\ \A j \in 1..(i - 1) : parts[j].socketId # sid /\ parts[j].userId # uid
    ELSE 0

\* socket.ts:151
MsgChatRequired == <<"Meeting ID, User ID, and message are required">>

\* io.to(meetingId).emit(SocketEvents.CHAT_MESSAGE, chatMessage)
ChatMessageEvent(m, u, n, text, members) ==
    [BlankEvent EXCEPT !.type = "chat:message", !.to = members, !.meetingId = m,
                       !.userId = u, !.username = n, !.message = text]

\* socket.to(meetingId).emit(SocketEvents.TYPING_START / TYPING_STOP, {...})
TypingEvent(ev, u, n, members) ==
    [BlankEvent EXCEPT !.type = ev, !.to = members, !.userId = u, !.username = n]

\* the map with the array read at socket.ts:162 stored under the meetingId
MapAfterChatStored(map, m) == MapSet(map, m, MapGetOrEmpty(map, m), 0)

\* socket.ts:162: the handler reads meetingRooms.get(meetingId) || [] into a
\* local and stores nothing
MapAfterChat(map, m) == map

\* socket.ts:145-185: the handler has no await
ChatMessage(c, m, u, n, text) ==
    /\ messaging
    /\ c \in connected
    /\ nOps < OpsAllowed
    /\ nOps' = nOps + 1
    /\ Nameable(SocketOrder, named.sockets, c)
    /\ Nameable(UserOrder, named.users, u)
    /\ Nameable(FreshOrder, named.meetings, m)
    /\ named' = [sockets |-> Naming(SocketOrder, named.sockets, c),
                 users |-> Naming(UserOrder, named.users, u),
                 meetings |-> Naming(FreshOrder, named.meetings, m)]
    /\ IF m = NoValue \/ u = NoValue \/ text = <<>>
       THEN /\ lastEmit' = <<ErrorEvent(c, connected, MsgChatRequired)>>
            /\ lastOp' = Op("chat", "", c, m, u, "invalid")
            /\ UNCHANGED meetingRooms
       ELSE IF Trim(text) = <<>>
       THEN /\ lastEmit' = <<>>
            /\ lastOp' = Op("chat", "", c, m, u, "blank")
            /\ UNCHANGED meetingRooms
       ELSE LET parts == MapGetOrEmpty(meetingRooms, m)
                idx == FindIndexBySocketOrUserId(parts, c, u)
                name == IF idx # 0 /\ parts[idx].username # NoValue
                        THEN parts[idx].username ELSE n
            IN  /\ lastEmit' = <<ChatMessageEvent(m, u, name, Trim(text),
                                                   RoomOf(rooms, m) \cap connected)>>
                /\ lastOp' = Op("chat", "", c, m, u, "sent")
                /\ meetingRooms' = MapAfterChat(meetingRooms, m)
    /\ UNCHANGED <<rooms, connected, db, tasks, clock, storeFailed, faulty, messaging>>

\* socket.ts:190-219: the two handlers differ in the event they emit
Typing(c, ev, m, u, n) ==
    /\ messaging
    /\ c \in connected
    /\ nOps < OpsAllowed
    /\ nOps' = nOps + 1
    /\ Nameable(SocketOrder, named.sockets, c)
    /\ Nameable(UserOrder, named.users, u)
    /\ Nameable(FreshOrder, named.meetings, m)
    /\ named' = [sockets |-> Naming(SocketOrder, named.sockets, c),
                 users |-> Naming(UserOrder, named.users, u),
                 meetings |-> Naming(FreshOrder, named.meetings, m)]
    /\ IF m = NoValue \/ u = NoValue
       THEN /\ lastEmit' = <<>>
            /\ lastOp' = Op(ev, "", c, m, u, "invalid")
       ELSE /\ lastEmit' = <<TypingEvent(ev, u, n, (RoomOf(rooms, m) \ {c}) \cap connected)>>
            /\ lastOp' = Op(ev, "", c, m, u, "sent")
    /\ UNCHANGED <<meetingRooms, rooms, connected, db, tasks, clock, storeFailed, faulty,
                   messaging>>

----------------------------------------------------------------------------

\* The payloads of join:meeting.  The handler tests a missing field and reads
\* nothing else of such a payload: one payload stands for each way of missing.
JoinPayloads ==
    (MeetingIds \X Users) \cup {<<NoValue, "u1">>, <<"m1", NoValue>>, <<NoValue, NoValue>>}

Next ==
    \/ \E c \in Sockets, p \in JoinPayloads : JoinMeeting(c, p[1], p[2], NameOf(c))
    \/ \E t \in BagToSet(tasks), ok \in BOOLEAN : JoinMeetingExists(t, ok)
    \/ \E t \in BagToSet(tasks), ok \in BOOLEAN : AddParticipantGet(t, ok)
    \/ \E t \in BagToSet(tasks), ok \in BOOLEAN : AddParticipantUpdate(t, ok)
    \/ \E t \in BagToSet(tasks), ok \in BOOLEAN : UpdateActiveExists(t, ok)
    \/ \E t \in BagToSet(tasks), ok \in BOOLEAN : UpdateActiveUpdate(t, ok)
    \/ \E c \in Sockets, m \in MeetingIds : LeaveMeeting(c, m)
    \/ \E c \in Sockets : Disconnect(c)

\* every store call succeeds
Spec == Init /\ [][Next]_vars

\* The server after the first Join
SpecOneJoined == InitOneJoined /\ [][Next]_vars

\* a store call may fail
SpecFaulty == InitFaulty /\ [][Next]_vars

\* The payloads of chat:message and of typing:start / typing:stop
ChatPayloads == (MeetingIds \cup {NoValue}) \X (Users \cup {NoValue}) \X Texts
TypingPayloads == (MeetingIds \cup {NoValue}) \X (Users \cup {NoValue})
TypingEvents == {"typing:start", "typing:stop"}

NextMessaging ==
    \/ Next
    \/ \E c \in Sockets, p \in ChatPayloads : ChatMessage(c, p[1], p[2], NameOf(c), p[3])
    \/ \E c \in Sockets, ev \in TypingEvents, p \in TypingPayloads :
           Typing(c, ev, p[1], p[2], NameOf(c))

\* every store call succeeds; chat and typing events arrive
InitMessaging ==
    /\ faulty = FALSE
    /\ messaging = TRUE
    /\ \/ \E k \in 0..MAX_PARTICIPANTS : InitAfter(k)
       \/ InitAfterSecondSession

SpecMessaging == InitMessaging /\ [][NextMessaging]_vars

\* from the state in which a connection holds a session of a meeting whose room
\* it has left
SpecSecondSession == InitSecondSession /\ [][Next]_vars

\* from the state in which a suspended Join handler holds an array that has left
\* the map
SpecLeftWhileJoining == InitLeftWhileJoining /\ [][Next]_vars

\* from the state in which a connection holds a session in two meetings
SpecTwoMeetings == InitTwoMeetings /\ [][Next]_vars

----------------------------------------------------------------------------
(* POST /:meetingId/join, meetingController.ts:171-210 *)

\* the request arrives: validation, then the call of chatService.getMeetingInfo
HttpJoinMeeting(m, u) ==
    /\ nOps < OpsAllowed
    /\ nOps' = nOps + 1
    /\ Nameable(UserOrder, named.users, u)
    /\ Nameable(FreshOrder, named.meetings, m)
    /\ named' = [named EXCEPT !.users = Naming(UserOrder, @, u),
                              !.meetings = Naming(FreshOrder, @, m)]
    /\ IF u = NoValue
       THEN /\ lastOp' = Op("httpJoin", "http", NoValue, m, u, "400")
            /\ UNCHANGED tasks
       ELSE /\ tasks' = Suspend(tasks, NewTask("http", "info", NoValue, m, u, NoValue))
            /\ lastOp' = Op("httpJoin", "http", NoValue, m, u, "pending")
    /\ lastEmit' = <<>>
    /\ UNCHANGED <<meetingRooms, rooms, connected, db, clock, storeFailed, faulty, messaging>>

\* chatService.ts:75-92, getMeetingInfo: a missing document and a failed read
\* both throw, and the controller answers 500 (meetingController.ts:201-208)
HttpGetMeetingInfo(t, ok) ==
    /\ BagIn(t, tasks) /\ t.kind = "http" /\ t.pc = "info"
    /\ (ok \/ faulty)
    /\ storeFailed' = (storeFailed \/ ~ok)
    /\ IF ok /\ t.meetingId \in DOMAIN db
       THEN /\ tasks' = Suspend(Resume(tasks, t), [t EXCEPT !.pc = "addGet"])
            /\ lastOp' = Op("httpInfo", "http", t.socketId, t.meetingId, t.userId, "ok")
       ELSE /\ tasks' = Resume(tasks, t)
            /\ lastOp' = Op("httpInfo", "http", t.socketId, t.meetingId, t.userId, "500")
    /\ lastEmit' = <<>>
    /\ UNCHANGED <<meetingRooms, rooms, connected, db, clock, nOps, faulty, messaging, named>>

\* chatService.ts:103-121 called at meetingController.ts:191: meetingRef.get()
\* returns; the userId is in the list, or update is called with the list read
\* here and the userId appended
HttpAddParticipantGet(t, ok) ==
    /\ BagIn(t, tasks) /\ t.kind = "http" /\ t.pc = "addGet"
    /\ (ok \/ faulty)
    /\ storeFailed' = (storeFailed \/ ~ok)
    /\ lastOp' = Op("httpAddGet", "http", t.socketId, t.meetingId, t.userId,
                    IF ok THEN "ok" ELSE "failed")
    /\ tasks' = Suspend(Resume(tasks, t),
                        IF ok /\ t.meetingId \in DOMAIN db
                              /\ ~Includes(db[t.meetingId].participants, t.userId)
                        THEN [t EXCEPT !.pc = "addUpdate",
                                       !.parts = db[t.meetingId].participants]
                        ELSE [t EXCEPT !.pc = "info2"])
    /\ lastEmit' = <<>>
    /\ UNCHANGED <<meetingRooms, rooms, connected, db, clock, nOps, faulty, messaging, named>>

\* chatService.ts:115-118: meetingRef.update({participants: [...participants, userId]})
HttpAddParticipantUpdate(t, ok) ==
    /\ BagIn(t, tasks) /\ t.kind = "http" /\ t.pc = "addUpdate"
    /\ (ok \/ faulty)
    /\ storeFailed' = (storeFailed \/ ~(ok /\ t.meetingId \in DOMAIN db))
    /\ lastOp' = Op("httpAddUpdate", "http", t.socketId, t.meetingId, t.userId,
                    IF ok /\ t.meetingId \in DOMAIN db THEN "ok" ELSE "failed")
    /\ db' = IF ok /\ t.meetingId \in DOMAIN db
             THEN [db EXCEPT ![t.meetingId].participants = Append(t.parts, t.userId)]
             ELSE db
    /\ tasks' = Suspend(Resume(tasks, t), [t EXCEPT !.pc = "info2", !.parts = <<>>])
    /\ lastEmit' = <<>>
    /\ UNCHANGED <<meetingRooms, rooms, connected, clock, nOps, faulty, messaging, named>>

\* meetingController.ts:193-208 and 367-383: getMeetingInfo again, then the 200
\* response of joinMeeting or updateMeeting (500 when it throws)
HttpRespond(t, ok) ==
    /\ BagIn(t, tasks) /\ t.kind = "http" /\ t.pc = "info2"
    /\ (ok \/ faulty)
    /\ storeFailed' = (storeFailed \/ ~ok)
    /\ tasks' = Resume(tasks, t)
    /\ lastOp' = Op("httpRespond", "http", t.socketId, t.meetingId, t.userId,
                    IF ok /\ t.meetingId \in DOMAIN db THEN "200" ELSE "500")
    /\ lastEmit' = <<>>
    /\ UNCHANGED <<meetingRooms, rooms, connected, db, clock, nOps, faulty, messaging, named>>

\* The bodies of the join requests: req.params.meetingId is never empty
HttpJoinPayloads == MeetingIds \X (Users \cup {NoValue})

\* the Joins of the socket and of the HTTP interface
NextJoins ==
    \/ \E c \in Sockets, p \in JoinPayloads : JoinMeeting(c, p[1], p[2], NameOf(c))
    \/ \E t \in BagToSet(tasks), ok \in BOOLEAN : JoinMeetingExists(t, ok)
    \/ \E t \in BagToSet(tasks), ok \in BOOLEAN : AddParticipantGet(t, ok)
    \/ \E t \in BagToSet(tasks), ok \in BOOLEAN : AddParticipantUpdate(t, ok)
    \/ \E t \in BagToSet(tasks), ok \in BOOLEAN : UpdateActiveExists(t, ok)
    \/ \E t \in BagToSet(tasks), ok \in BOOLEAN : UpdateActiveUpdate(t, ok)
    \/ \E p \in HttpJoinPayloads : HttpJoinMeeting(p[1], p[2])
    \/ \E t \in BagToSet(tasks), ok \in BOOLEAN : HttpGetMeetingInfo(t, ok)
    \/ \E t \in BagToSet(tasks), ok \in BOOLEAN : HttpAddParticipantGet(t, ok)
    \/ \E t \in BagToSet(tasks), ok \in BOOLEAN : HttpAddParticipantUpdate(t, ok)
    \/ \E t \in BagToSet(tasks), ok \in BOOLEAN : HttpRespond(t, ok)

\* a fresh server; every store call succeeds; users join over the socket and over
\* HTTP
InitJoins == faulty = FALSE /\ messaging = FALSE /\ InitAfter(0)

SpecJoins == InitJoins /\ [][NextJoins]_vars

----------------------------------------------------------------------------
(* POST /, DELETE /:meetingId and PUT /:meetingId, meetingController.ts *)

\* the users of the HTTP interface
HttpUsers == Users \cup {InitialHost}

\* meetingController.ts:12-14, generateMeetingId: a random id at each call,
\* tested against nothing: an id no event has named yet, or one that already
\* names a document, a roster or a running handler
GeneratedIds ==
    {m \in MeetingIds : Nameable(FreshOrder, named.meetings, m)}

\* meetingController.ts:22-76: validation, the document built, then the call of
\* chatService.createMeeting; max = 0 is a missing maxParticipants
HttpCreateMeeting(u, valid, max) ==
    /\ nOps < OpsAllowed
    /\ nOps' = nOps + 1
    /\ Nameable(UserOrder, named.users, u)
    /\ IF u = NoValue \/ ~valid
       THEN /\ lastOp' = Op("httpCreate", "http", NoValue, NoValue, u, "400")
            /\ named' = [named EXCEPT !.users = Naming(UserOrder, @, u)]
            /\ UNCHANGED tasks
       ELSE \E m \in GeneratedIds :
               /\ named' = [named EXCEPT !.users = Naming(UserOrder, @, u),
                                         !.meetings = Naming(FreshOrder, @, m)]
               /\ tasks' = Suspend(tasks,
                              [NewTask("http", "create", NoValue, m, u, NoValue)
                                  EXCEPT !.maxParticipants =
                                             IF max = 0 THEN MAX_PARTICIPANTS ELSE max])
               /\ lastOp' = Op("httpCreate", "http", NoValue, m, u, "pending")
    /\ lastEmit' = <<>>
    /\ UNCHANGED <<meetingRooms, rooms, connected, db, clock, storeFailed, faulty, messaging>>

\* chatService.ts:20-28 and meetingController.ts:76-92: doc(meetingId).set(meetingData)
\* returns, or throws and the controller answers 500
HttpCreateMeetingSet(t, ok) ==
    /\ BagIn(t, tasks) /\ t.kind = "http" /\ t.pc = "create"
    /\ (ok \/ faulty)
    /\ storeFailed' = (storeFailed \/ ~ok)
    /\ db' = IF ok
             THEN [m \in DOMAIN db \cup {t.meetingId} |->
                      IF m = t.meetingId
                      THEN [participants |-> <<t.userId>>, activeParticipants |-> 0,
                            maxParticipants |-> t.maxParticipants, hostId |-> t.userId]
                      ELSE db[m]]
             ELSE db
    /\ tasks' = Resume(tasks, t)
    /\ lastOp' = Op("httpCreateSet", "http", NoValue, t.meetingId, t.userId,
                    IF ok THEN "201" ELSE "500")
    /\ lastEmit' = <<>>
    /\ UNCHANGED <<meetingRooms, rooms, connected, clock, nOps, faulty, messaging, named>>

\* meetingController.ts:256-269: validation, then the call of getMeetingInfo
HttpDeleteMeeting(m, u) ==
    /\ nOps < OpsAllowed
    /\ nOps' = nOps + 1
    /\ Nameable(UserOrder, named.users, u)
    /\ Nameable(FreshOrder, named.meetings, m)
    /\ named' = [named EXCEPT !.users = Naming(UserOrder, @, u),
                              !.meetings = Naming(FreshOrder, @, m)]
    /\ IF u = NoValue
       THEN /\ lastOp' = Op("httpDelete", "http", NoValue, m, u, "400")
            /\ UNCHANGED tasks
       ELSE /\ tasks' = Suspend(tasks, NewTask("http", "deleteInfo", NoValue, m, u, NoValue))
            /\ lastOp' = Op("httpDelete", "http", NoValue, m, u, "pending")
    /\ lastEmit' = <<>>
    /\ UNCHANGED <<meetingRooms, rooms, connected, db, clock, storeFailed, faulty, messaging>>

\* meetingController.ts:269-280: getMeetingInfo returns or throws (500); only the
\* host goes on (403), to the call of chatService.deleteMeeting
HttpDeleteInfo(t, ok) ==
    /\ BagIn(t, tasks) /\ t.kind = "http" /\ t.pc = "deleteInfo"
    /\ (ok \/ faulty)
    /\ storeFailed' = (storeFailed \/ ~ok)
    /\ IF ~(ok /\ t.meetingId \in DOMAIN db)
       THEN /\ tasks' = Resume(tasks, t)
            /\ lastOp' = Op("httpDeleteInfo", "http", NoValue, t.meetingId, t.userId, "500")
       ELSE IF db[t.meetingId].hostId # t.userId
       THEN /\ tasks' = Resume(tasks, t)
            /\ lastOp' = Op("httpDeleteInfo", "http", NoValue, t.meetingId, t.userId, "403")
       ELSE /\ tasks' = Suspend(Resume(tasks, t), [t EXCEPT !.pc = "delete"])
            /\ lastOp' = Op("httpDeleteInfo", "http", NoValue, t.meetingId, t.userId, "ok")
    /\ lastEmit' = <<>>
    /\ UNCHANGED <<meetingRooms, rooms, connected, db, clock, nOps, faulty, messaging, named>>

\* chatService.ts:173-181 and meetingController.ts:280-295: doc(meetingId).delete()
\* returns (also when the document is gone already), or throws (500)
HttpDeleteDoc(t, ok) ==
    /\ BagIn(t, tasks) /\ t.kind = "http" /\ t.pc = "delete"
    /\ (ok \/ faulty)
    /\ storeFailed' = (storeFailed \/ ~ok)
    /\ db' = IF ok THEN [m \in DOMAIN db \ {t.meetingId} |-> db[m]] ELSE db
    /\ tasks' = Resume(tasks, t)
    /\ lastOp' = Op("httpDeleteDoc", "http", NoValue, t.meetingId, t.userId,
                    IF ok THEN "200" ELSE "500")
    /\ lastEmit' = <<>>
    /\ UNCHANGED <<meetingRooms, rooms, connected, clock, nOps, faulty, messaging, named>>

\* meetingController.ts:304-342: validation, then the call of getMeetingInfo;
\* max = 0 is a missing maxParticipants
HttpUpdateMeeting(m, u, valid, max) ==
    /\ nOps < OpsAllowed
    /\ nOps' = nOps + 1
    /\ Nameable(UserOrder, named.users, u)
    /\ Nameable(FreshOrder, named.meetings, m)
    /\ named' = [named EXCEPT !.users = Naming(UserOrder, @, u),
                              !.meetings = Naming(FreshOrder, @, m)]
    /\ IF u = NoValue \/ ~valid
       THEN /\ lastOp' = Op("httpUpdate", "http", NoValue, m, u, "400")
            /\ UNCHANGED tasks
       ELSE /\ tasks' = Suspend(tasks,
                           [NewTask("http", "updateInfo", NoValue, m, u, NoValue)
                               EXCEPT !.maxParticipants = max])
            /\ lastOp' = Op("httpUpdate", "http", NoValue, m, u, "pending")
    /\ lastEmit' = <<>>
    /\ UNCHANGED <<meetingRooms, rooms, connected, db, clock, storeFailed, faulty, messaging>>

\* meetingController.ts:342-365: getMeetingInfo returns or throws (500); only the
\* host goes on (403), to the call of chatService.updateMeeting
HttpUpdateInfo(t, ok) ==
    /\ BagIn(t, tasks) /\ t.kind = "http" /\ t.pc = "updateInfo"
    /\ (ok \/ faulty)
    /\ storeFailed' = (storeFailed \/ ~ok)
    /\ IF ~(ok /\ t.meetingId \in DOMAIN db)
       THEN /\ tasks' = Resume(tasks, t)
            /\ lastOp' = Op("httpUpdateInfo", "http", NoValue, t.meetingId, t.userId, "500")
       ELSE IF db[t.meetingId].hostId # t.userId
       THEN /\ tasks' = Resume(tasks, t)
            /\ lastOp' = Op("httpUpdateInfo", "http", NoValue, t.meetingId, t.userId, "403")
       ELSE /\ tasks' = Suspend(Resume(tasks, t), [t EXCEPT !.pc = "update"])
            /\ lastOp' = Op("httpUpdateInfo", "http", NoValue, t.meetingId, t.userId, "ok")
    /\ lastEmit' = <<>>
    /\ UNCHANGED <<meetingRooms, rooms, connected, db, clock, nOps, faulty, messaging, named>>

\* chatService.ts:158-166 and meetingController.ts:365-367: doc(meetingId).update(updateData)
\* returns, or throws (the store failed, or the document is gone: 500); then
\* the call of getMeetingInfo for the response
HttpUpdateDoc(t, ok) ==
    /\ BagIn(t, tasks) /\ t.kind = "http" /\ t.pc = "update"
    /\ (ok \/ faulty)
    /\ LET written == ok /\ t.meetingId \in DOMAIN db
       IN  /\ storeFailed' = (storeFailed \/ ~written)
           /\ db' = IF written /\ t.maxParticipants # 0
                    THEN [db EXCEPT ![t.meetingId].maxParticipants = t.maxParticipants]
                    ELSE db
           /\ tasks' = IF written
                       THEN Suspend(Resume(tasks, t),
                                    [t EXCEPT !.pc = "info2", !.maxParticipants = 0])
                       ELSE Resume(tasks, t)
           /\ lastOp' = Op("httpUpdateDoc", "http", NoValue, t.meetingId, t.userId,
                           IF written THEN "ok" ELSE "500")
    /\ lastEmit' = <<>>
    /\ UNCHANGED <<meetingRooms, rooms, connected, clock, nOps, faulty, messaging, named>>

\* The bodies of POST / (userId, whether title, date and time are present and
\* well-formed, maxParticipants), DELETE /:meetingId and PUT /:meetingId
HttpCreatePayloads == (HttpUsers \cup {NoValue}) \X BOOLEAN \X {0, 1}
HttpDeletePayloads == MeetingIds \X (HttpUsers \cup {NoValue})
HttpUpdatePayloads == MeetingIds \X (HttpUsers \cup {NoValue}) \X BOOLEAN \X {0, 1}

\* the socket events and every request of the HTTP interface that writes
NextHttp ==
    \/ Next
    \/ \E p \in HttpJoinPayloads : HttpJoinMeeting(p[1], p[2])
    \/ \E t \in BagToSet(tasks), ok \in BOOLEAN : HttpGetMeetingInfo(t, ok)
    \/ \E t \in BagToSet(tasks), ok \in BOOLEAN : HttpAddParticipantGet(t, ok)
    \/ \E t \in BagToSet(tasks), ok \in BOOLEAN : HttpAddParticipantUpdate(t, ok)
    \/ \E t \in BagToSet(tasks), ok \in BOOLEAN : HttpRespond(t, ok)
    \/ \E p \in HttpCreatePayloads : HttpCreateMeeting(p[1], p[2], p[3])
    \/ \E t \in BagToSet(tasks), ok \in BOOLEAN : HttpCreateMeetingSet(t, ok)
    \/ \E p \in HttpDeletePayloads : HttpDeleteMeeting(p[1], p[2])
    \/ \E t \in BagToSet(tasks), ok \in BOOLEAN : HttpDeleteInfo(t, ok)
    \/ \E t \in BagToSet(tasks), ok \in BOOLEAN : HttpDeleteDoc(t, ok)
    \/ \E p \in HttpUpdatePayloads : HttpUpdateMeeting(p[1], p[2], p[3], p[4])
    \/ \E t \in BagToSet(tasks), ok \in BOOLEAN : HttpUpdateInfo(t, ok)
    \/ \E t \in BagToSet(tasks), ok \in BOOLEAN : HttpUpdateDoc(t, ok)

SpecHttp == Init /\ [][NextHttp]_vars

----------------------------------------------------------------------------
(* Properties *)

UserIds(parts) == {parts[i].userId : i \in 1..Len(parts)}
SocketIds(parts) == {parts[i].socketId : i \in 1..Len(parts)}
EventTypes(events) == {events[i].type : i \in 1..Len(events)}
Delivered(events) == SelectSeq(events, LAMBDA e : e.to # {})

\* C1: in every reachable state, whatever the interleaving of the suspended
\* handlers, no roster is longer than the configured maximum.
C1_RosterWithinCapacity ==
    \A i \in 1..Len(meetingRooms) : Len(meetingRooms[i].participants) <= MAX_PARTICIPANTS

\* A Join is refused at a roster filled by another Join that is still suspended
\* at a store call: the two handlers ran interleaved.
C1_Witness ==
    /\ lastOp.op = "joinExists" /\ lastOp.result = "full"
    /\ Len(MapGetOrEmpty(meetingRooms, lastOp.meetingId)) = MAX_PARTICIPANTS
    /\ \E t \in BagToSet(tasks) : /\ t.kind = "join" /\ t.pc # "exists"
                                  /\ t.meetingId = lastOp.meetingId
                                  /\ t.socketId # lastOp.socketId

\* C2: in every reachable state no two sessions of one roster share a userId.
C2_UserIdUnique ==
    \A i \in 1..Len(meetingRooms) :
        LET parts == meetingRooms[i].participants
        IN  \A j, k \in 1..Len(parts) : parts[j].userId = parts[k].userId => j = k

\* Two connections have joined one meeting with the same userId, the second
\* while the handler of the first was suspended.
C2_Witness ==
    /\ lastOp.op = "joinExists" /\ lastOp.handler = "rejoin"
    /\ \E t \in BagToSet(tasks) :
                        /\ t.kind = "join" /\ t.pc \in {"addGet", "addUpdate"}
                        /\ t.meetingId = lastOp.meetingId
                        /\ t.userId = lastOp.userId
                        /\ t.socketId # lastOp.socketId
                        /\ ~t.reconnect

\* C3: a Join that finds the roster of its meeting at the maximum, its userId
\* not in it, sends operation-error 'Meeting is full (maximum N participants)'
\* to its own connection and nothing else to anyone, and leaves the rosters, the
\* meeting documents and the channel subscriptions as they were.
C3_FullJoinRejected ==
    [][ LET o == lastOp'
            r == MapGetOrEmpty(meetingRooms, o.meetingId)
        IN  (o.op = "joinExists" /\ Len(r) = MAX_PARTICIPANTS /\ o.userId \notin UserIds(r))
            => /\ Len(lastEmit') = 1
               /\ lastEmit'[1].type = "error"
               /\ lastEmit'[1].message =
                      <<"Meeting is full (maximum ", MAX_PARTICIPANTS, " participants)">>
               /\ lastEmit'[1].to = {o.socketId} \cap connected
               /\ meetingRooms' = meetingRooms
               /\ db' = db
               /\ rooms' = rooms ]_vars

C3_Witness ==
    /\ lastOp.op = "joinExists" /\ lastOp.result = "full"
    /\ Len(MapGetOrEmpty(meetingRooms, lastOp.meetingId)) = MAX_PARTICIPANTS
    /\ lastOp.userId \notin UserIds(MapGetOrEmpty(meetingRooms, lastOp.meetingId))
    /\ lastEmit[1].to = {lastOp.socketId}
    /\ lastOp.socketId \notin rooms[lastOp.meetingId]

\* C4: a Join whose userId is in the roster is admitted although the roster is
\* at the maximum: no operation-error, the session now held by the joining
\* connection, the roster as long as before.
C4_ReconnectBypassesCapacity ==
    [][ LET o == lastOp'
            r == MapGetOrEmpty(meetingRooms, o.meetingId)
            r2 == MapGetOrEmpty(meetingRooms', o.meetingId)
        IN  (o.op = "joinExists" /\ o.userId \in UserIds(r) /\ Len(r) = MAX_PARTICIPANTS)
            => /\ "error" \notin EventTypes(lastEmit')
               /\ Len(r2) = Len(r)
               /\ \E i \in 1..Len(r2) :
                      r2[i].userId = o.userId /\ r2[i].socketId = o.socketId ]_vars

\* C5: a Join whose userId is in the roster gives that session the socket id of
\* the joining connection, and the map of rosters is otherwise what it was.
C5_ReconnectReplacesConnection ==
    [][ LET o == lastOp'
            r == MapGetOrEmpty(meetingRooms, o.meetingId)
        IN  (o.op = "joinExists" /\ o.userId \in UserIds(r))
            => LET i == CHOOSE j \in 1..Len(r) : r[j].userId = o.userId
                   k == CHOOSE j \in 1..Len(meetingRooms) :
                            meetingRooms[j].meetingId = o.meetingId
               IN  meetingRooms' =
                       [meetingRooms EXCEPT ![k].participants[i].socketId = o.socketId]
      ]_vars

\* C6: the broadcasts of a Join that found its userId in the roster are a
\* presence-snapshot and no participant-joined delivered to any connection;
\* participant-joined reaches a connection only from a Join that pushed a
\* session.
C6_NoJoinedOnReconnect ==
    /\ (lastOp.op = "active" /\ lastOp.handler = "rejoin")
          => /\ "users:online" \in EventTypes(lastEmit)
             /\ "user:joined" \notin EventTypes(Delivered(lastEmit))
    /\ "user:joined" \in EventTypes(Delivered(lastEmit)) => lastOp.handler = "join"

\* C7: once Remove has run for a connection, the roster it ran on holds no
\* session of that connection, so that Remove run again finds nothing to do; and
\* a Remove that finds no session of the connection changes no roster, sends no
\* event and calls no active-count update.
C7_RemoveIdempotent ==
    [][ LET o == lastOp'
            r == MapGetOrEmpty(meetingRooms, o.meetingId)
            r2 == MapGetOrEmpty(meetingRooms', o.meetingId)
        IN  o.op \in {"leave", "disconnect"}
            => /\ o.socketId \notin SocketIds(r2)
               /\ o.socketId \notin SocketIds(r)
                     => /\ meetingRooms' = meetingRooms
                        /\ lastEmit' = <<>>
                        /\ tasks' = tasks
                        /\ db' = db ]_vars

\* C8: no step takes a userId out of the participants list of a meeting
\* document, and no step of a Remove writes the list.
C8_HistoryNeverShrinks ==
    [][ \A m \in DOMAIN db :
            /\ Range(db[m].participants) \subseteq Range(db'[m].participants)
            /\ lastOp'.handler = "remove" => db'[m].participants = db[m].participants
      ]_vars

\* C9: when no handler is suspended and no store call has failed, the
\* activeParticipants of every meeting document is the length of its roster.
C9_ActiveCountSettles ==
    (tasks = EmptyBag /\ ~storeFailed)
        => \A m \in DOMAIN db :
               db[m].activeParticipants = Len(MapGetOrEmpty(meetingRooms, m))

\* C10: a failed call of addParticipantToMeeting or updateActiveParticipants
\* changes no roster and sends no operation-error; the Join goes on to the
\* active-count update and ends with its presence-snapshot to the room and its
\* participant-joined to the others, and a Remove has sent participant-left and
\* presence-snapshot before its store call.
C10_StoreFailureSwallowed ==
    [][ LET o == lastOp'
            joining == o.handler \in {"join", "rejoin"}
        IN  /\ (o.result = "failed" /\ o.op \in {"addGet", "addUpdate", "active"})
                => /\ meetingRooms' = meetingRooms
                   /\ "error" \notin EventTypes(lastEmit')
                   /\ (joining /\ o.op # "active")
                         => \E t \in BagToSet(tasks') :
                                /\ t.kind = "join" /\ t.pc = "active"
                                /\ t.socketId = o.socketId
                                /\ t.meetingId = o.meetingId
                                /\ t.userId = o.userId
                   /\ (joining /\ o.op = "active")
                         => /\ Len(lastEmit') = 2
                            /\ lastEmit'[1].type = "users:online"
                            /\ lastEmit'[1].to = rooms[o.meetingId] \cap connected
                            /\ lastEmit'[2].type = "user:joined"
                            /\ lastEmit'[2].userId = o.userId
                            /\ lastEmit'[2].to =
                                   (rooms[o.meetingId] \ {o.socketId}) \cap connected
            /\ (o.op \in {"leave", "disconnect"} /\ o.result = "removed")
                => /\ Len(lastEmit') = 2
                   /\ lastEmit'[1].type = "user:left"
                   /\ lastEmit'[2].type = "users:online" ]_vars

\* A Join pushed a session; the append to the participants list did not happen
\* and the active-count update failed; the session is in the roster and the two
\* broadcasts went out.
C10_Witness ==
    /\ faulty
    /\ lastOp.op = "active" /\ lastOp.result = "failed" /\ lastOp.handler = "join"
    /\ lastOp.userId \in UserIds(MapGetOrEmpty(meetingRooms, lastOp.meetingId))
    /\ lastOp.userId \notin Range(db[lastOp.meetingId].participants)
    /\ EventTypes(lastEmit) = {"users:online", "user:joined"}

\* C11: a Join changed the roster of a meeting before a Remove did; a connection
\* that has received the participant-left and presence-snapshot of the Remove
\* receives no broadcast of the Join after them.
C11_NotificationsInMutationOrder ==
    [][ \A t \in BagToSet(tasks) :
            (/\ t.kind = "join" /\ t.pc \in {"active", "active:update"}
             /\ lastOp'.op = "active" /\ lastOp'.handler # "remove"
             /\ lastOp'.socketId = t.socketId /\ lastOp'.meetingId = t.meetingId
             /\ lastOp'.userId = t.userId
             /\ CopiesIn(t, tasks') < CopiesIn(t, tasks))
            => \A i \in 1..Len(lastEmit') : lastEmit'[i].to \cap t.overtaken = {} ]_vars

\* the open connections that hold a session in the roster of m
MembersOf(map, m, conn) == SocketIds(MapGetOrEmpty(map, m)) \cap conn

\* C12: the last segment of a Join that pushed a session sends two events: a
\* presence-snapshot carrying the roster of the meeting to every open
\* connection holding a session in it, the joiner's among them, and then a
\* participant-joined naming the joining user to all of them but the joiner.
C12_JoinBroadcastsTwice ==
    [][ LET o == lastOp'
            members == MembersOf(meetingRooms', o.meetingId, connected')
        IN  (o.op = "active" /\ o.handler = "join")
            => /\ Len(lastEmit') = 2
               /\ lastEmit'[1].type = "users:online"
               /\ lastEmit'[1].participants =
                      PublicView(MapGetOrEmpty(meetingRooms', o.meetingId))
               /\ members \subseteq lastEmit'[1].to
               /\ lastEmit'[2].type = "user:joined"
               /\ lastEmit'[2].userId = o.userId
               /\ (members \ {o.socketId}) \subseteq lastEmit'[2].to
               /\ o.socketId \notin lastEmit'[2].to ]_vars

\* C13: a Remove that finds a session of its connection sends participant-left
\* naming the removed user and a presence-snapshot counting the sessions left
\* to every other open connection holding a session in the roster, and sends
\* the removed connection neither.
C13_RemoveNotifiesRemaining ==
    [][ LET o == lastOp'
            remaining == MembersOf(meetingRooms', o.meetingId, connected') \ {o.socketId}
        IN  (o.op \in {"leave", "disconnect"} /\ o.result = "removed")
            => /\ Len(lastEmit') = 2
               /\ lastEmit'[1].type = "user:left"
               /\ lastEmit'[1].userId = o.userId
               /\ lastEmit'[2].type = "users:online"
               /\ lastEmit'[2].count = Len(MapGetOrEmpty(meetingRooms', o.meetingId))
               /\ \A i \in 1..2 : /\ remaining \subseteq lastEmit'[i].to
                                   /\ o.socketId \notin lastEmit'[i].to ]_vars

\* C14: a chat message whose text is not empty, sent by a connection that holds
\* a session in the roster of the meeting it names, is emitted once, to the open
\* sockets of the meeting's room, and the sender is one of them.
C14_ChatDeliveredToRoom ==
    [][ LET o == lastOp'
        IN  (/\ o.op = "chat" /\ o.result # "invalid"
             /\ o.socketId \in SocketIds(MapGetOrEmpty(meetingRooms, o.meetingId)))
            => /\ Len(lastEmit') = 1
               /\ lastEmit'[1].type = "chat:message"
               /\ lastEmit'[1].to = RoomOf(rooms, o.meetingId) \cap connected
               /\ o.socketId \in lastEmit'[1].to ]_vars

\* C15: a join, chat or typing event that lacks a required field sends one
\* operation-error, to the connection it came from, and changes no roster, no
\* room and no meeting document.
C15_MissingIdentifiersRejected ==
    [][ lastOp'.result = "invalid"
            => /\ Len(lastEmit') = 1
               /\ lastEmit'[1].type = "error"
               /\ lastEmit'[1].to = {lastOp'.socketId}
               /\ meetingRooms' = meetingRooms
               /\ rooms' = rooms
               /\ db' = db ]_vars

\* C16: a Join naming a meeting that has no document sends operation-error
\* 'Meeting not found' to its own connection and nothing to any other, ends
\* there, and leaves the rosters, the rooms and the meeting documents as they
\* were.
C16_UnknownMeetingRejected ==
    [][ LET o == lastOp'
        IN  (o.op = "joinExists" /\ o.meetingId \notin DOMAIN db)
            => /\ Len(lastEmit') = 1
               /\ lastEmit'[1].type = "error"
               /\ lastEmit'[1].message = <<"Meeting not found">>
               /\ lastEmit'[1].to = {o.socketId} \cap connected
               /\ meetingRooms' = meetingRooms
               /\ rooms' = rooms
               /\ db' = db
               /\ tasks' \sqsubseteq tasks
               /\ tasks' # tasks ]_vars

C16_Witness ==
    /\ lastOp.op = "joinExists" /\ lastOp.result = "notfound"
    /\ lastOp.meetingId \notin DOMAIN db
    /\ lastEmit[1].to = {lastOp.socketId}
    /\ ~MapHas(meetingRooms, lastOp.meetingId)
    /\ meetingRooms # <<>>

\* C17: no roster is longer than the maxParticipants of the document of its own
\* meeting.
C17_PerMeetingCapacity ==
    \A i \in 1..Len(meetingRooms) :
        meetingRooms[i].meetingId \in DOMAIN db
            => Len(meetingRooms[i].participants)
                   <= db[meetingRooms[i].meetingId].maxParticipants

\* C18: the map holds no empty roster and one entry for a meeting at most;
\* getActiveMeetingsCount is the number of meetings that have a session and
\* getTotalUsersCount the number of sessions.
C18_NoEmptyRoster ==
    /\ \A i \in 1..Len(meetingRooms) : Len(meetingRooms[i].participants) >= 1
    /\ \A i, j \in 1..Len(meetingRooms) :
           meetingRooms[i].meetingId = meetingRooms[j].meetingId => i = j
    /\ getActiveMeetingsCount =
           Cardinality({m \in MeetingIds : \E i \in 1..Len(meetingRooms) :
                           /\ meetingRooms[i].meetingId = m
                           /\ meetingRooms[i].participants # <<>>})
    /\ getTotalUsersCount =
           Cardinality({p \in (1..Len(meetingRooms)) \X (1..MAX_PARTICIPANTS) :
                           p[2] <= Len(meetingRooms[p[1]].participants)})

\* A Remove took the last session of a meeting and its roster with it, while
\* another meeting keeps its roster.
C18_Witness ==
    /\ lastOp.op \in {"leave", "disconnect"} /\ lastOp.result = "removed"
    /\ ~MapHas(meetingRooms, lastOp.meetingId)
    /\ getActiveMeetingsCount = 1
    /\ getTotalUsersCount = 1

\* C19: when no handler is suspended and no store call has failed, the userId
\* of every session of every roster is in the participants list of the
\* document of its meeting.
C19_AdmittedUsersRecorded ==
    (tasks = EmptyBag /\ ~storeFailed)
        => \A i \in 1..Len(meetingRooms) :
               UserIds(meetingRooms[i].participants)
                   \subseteq Range(db[meetingRooms[i].meetingId].participants)

\* C20: no roster holds a session of a connection whose Disconnect has been
\* handled.
C20_NoSessionAfterDisconnect ==
    \A i \in 1..Len(meetingRooms) :
        SocketIds(meetingRooms[i].participants) \subseteq connected

\* the sessions of all rosters, each with the place it has in the map
AllSessions(map) ==
    {<<i, j>> \in (1..Len(map)) \X (1..(MAX_PARTICIPANTS + 1)) : j <= Len(map[i].participants)}

\* C21: in every reachable state a socket id is in one session at most, over all
\* rosters: a connection has joined one meeting at most, and holds one session
\* of it at most.
C21_ConnectionInOneSession ==
    \A p, q \in AllSessions(meetingRooms) :
        meetingRooms[p[1]].participants[p[2]].socketId
            = meetingRooms[q[1]].participants[q[2]].socketId => p = q

\* C22: the segment of a Join or of a Remove that changes a roster sends the
\* presence-snapshot and the participant-joined or participant-left of that
\* change itself: the broadcasts wait for the return of no store call.
C22_BroadcastsDoNotAwaitStore ==
    [][ LET o == lastOp'
        IN  /\ (o.op = "joinExists" /\ o.result = "admitted")
                => {"users:online", "user:joined"} \subseteq EventTypes(lastEmit')
            /\ (o.op \in {"leave", "disconnect"} /\ o.result = "removed")
                => {"users:online", "user:left"} \subseteq EventTypes(lastEmit') ]_vars

\* C23: every presence-snapshot carries the sessions of the roster its meeting
\* has in the map when it is emitted, in order, and that roster's length as
\* its count.
C23_SnapshotIsCurrentRoster ==
    \A i \in 1..Len(lastEmit) :
        lastEmit[i].type = "users:online"
            => /\ lastEmit[i].participants =
                      PublicView(MapGetOrEmpty(meetingRooms, lastEmit[i].meetingId))
               /\ lastEmit[i].count = Len(MapGetOrEmpty(meetingRooms, lastEmit[i].meetingId))

\* The session connection c held in m was given to another connection
\* (socket.ts:88) and c holds none in m since: c is in the room it joined
\* (socket.ts:105), which handleUserLeave alone takes it out of (socket.ts:282).
TakenOver(c, m) ==
    /\ c \in rooms[m]
    /\ c \notin SocketIds(MapGetOrEmpty(meetingRooms, m))

\* C24: once another connection has joined a meeting with the userId of the
\* session a connection held there, a Leave of that meeting or a Disconnect by
\* the connection that lost the session does nothing: no roster changes, no
\* event is emitted, no active-count update is called.
C24_RemoveAfterTakeoverIsNoop ==
    [][ LET o == lastOp'
        IN  (/\ o.op \in {"leave", "disconnect"}
             /\ \E m \in MeetingIds : /\ TakenOver(o.socketId, m)
                                      /\ o.op = "leave" => o.meetingId = m)
            => /\ meetingRooms' = meetingRooms
               /\ lastEmit' = <<>>
               /\ tasks' = tasks
               /\ db' = db ]_vars

\* C25: a chat-message, typing-start or typing-stop event changes no roster, no
\* room and no meeting document, and starts no store call.
C25_MessagingChangesNothing ==
    [][ lastOp'.op \in {"chat", "typing:start", "typing:stop"}
            => /\ meetingRooms' = meetingRooms
               /\ rooms' = rooms
               /\ db' = db
               /\ tasks' = tasks
               /\ connected' = connected ]_vars

\* A chat message for a meeting that has a document and no roster was sent to
\* its empty room, while another meeting has a roster.
C25_Witness ==
    /\ lastOp.op = "chat" /\ lastOp.result = "sent"
    /\ lastOp.meetingId \in DOMAIN db
    /\ ~MapHas(meetingRooms, lastOp.meetingId)
    /\ meetingRooms # <<>>
    /\ Len(lastEmit) = 1

\* C26: a step of a handler running for meeting M changes the roster of no
\* other meeting, and an event that is refused (missing field, meeting not
\* found, meeting full) changes no roster at all, so no session of any other
\* connection.
C26_OtherRostersUntouched ==
    [][ /\ \A m \in MeetingIds :
               m # lastOp'.meetingId
                   => MapGetOrEmpty(meetingRooms', m) = MapGetOrEmpty(meetingRooms, m)
        /\ lastOp'.result \in {"invalid", "notfound", "full"}
               => meetingRooms' = meetingRooms ]_vars

\* A Join pushed a session into the roster of one meeting while another
\* meeting has a roster.
C26_Witness ==
    /\ lastOp.op = "joinExists" /\ lastOp.result = "admitted"
    /\ \E i \in 1..Len(meetingRooms) :
           /\ meetingRooms[i].meetingId # lastOp.meetingId
           /\ lastOp.socketId \notin SocketIds(meetingRooms[i].participants)

\* C27: the step in which a store call of a Join or of a Remove fails (the
\* lookup of the meeting, the append to the participants list, the
\* active-count update) sends operation-error to no connection.
C27_StoreFailureNotSurfaced ==
    [][ (\/ storeFailed' /\ ~storeFailed
         \/ lastOp'.result = "failed"
         \/ lastOp'.op = "joinExists" /\ lastOp'.result = "notfound"
                /\ lastOp'.meetingId \in DOMAIN db)
            => "error" \notin EventTypes(lastEmit') ]_vars

\* C28: when no handler is suspended, the sockets in the room of a meeting are
\* the sockets of the sessions of its roster.
C28_RoomIsRoster ==
    tasks = EmptyBag
        => \A m \in MeetingIds : rooms[m] = SocketIds(MapGetOrEmpty(meetingRooms, m))

\* C29: in every reachable state the participants list of a meeting document
\* holds no userId twice, whatever Joins, over the socket or over HTTP, have
\* run or are suspended.
C29_HistoryHasNoDuplicate ==
    \A m \in DOMAIN db :
        \A i, j \in 1..Len(db[m].participants) :
            db[m].participants[i] = db[m].participants[j] => i = j

\* Two Joins of one userId, one over the socket and one over HTTP, both read the
\* list without the userId before either wrote it; both have written since.
C29_Witness ==
    /\ lastOp.op \in {"addUpdate", "httpAddUpdate"} /\ lastOp.result = "ok"
    /\ \E t \in BagToSet(tasks) :
                        /\ t.meetingId = lastOp.meetingId
                        /\ t.userId = lastOp.userId
                        /\ t.socketId # lastOp.socketId
                        /\ t.pc \in {"active", "info2"}
                        /\ t.kind = IF lastOp.op = "addUpdate" THEN "http" ELSE "join"
    /\ db[lastOp.meetingId].participants = <<InitialHost, lastOp.userId>>

\* C30: a chat-message reaches a connection only when the connection that sent
\* it holds a session in the roster of the meeting it names.
C30_ChatOnlyFromMembers ==
    (lastOp.op = "chat" /\ Delivered(lastEmit) # <<>> /\ lastEmit[1].type = "chat:message")
        => lastOp.socketId \in SocketIds(MapGetOrEmpty(meetingRooms, lastOp.meetingId))

====
